---- MODULE Spec2Model ----
(***************************************************************************)
(* Model of sift/view/TimelineItems.py: QTrackItem and QFrameItem, the     *)
(* z rank of a track, the frames list a track owns, the derived geometry   *)
(* (track anchor position and bounds, frame position and bounds) and the   *)
(* drag-and-drop handlers of a track.                                      *)
(*                                                                         *)
(* Times and durations (datetime / timedelta) are integers (seconds) and   *)
(* scene coordinates are integers: the transform multiplies by an integer  *)
(* number of pixels per second, and the heights are even, so that every    *)
(* division by two of the source is exact.                                  *)
(*                                                                         *)
(* sift.view.TimelineCommon (TimelineCoordTransform, recv_mime, the        *)
(* DEFAULT_* heights and MIMETYPE_* names) and the Scene / navigation      *)
(* operations are not part of TimelineItems.py; they are modelled from     *)
(* the design text (spec.md sections 4.1, 4.3, 4.4, 4.5).                   *)
(***************************************************************************)
EXTENDS Integers, Sequences, FiniteSets, TLC

VARIABLES
    created,        \* set of track ids whose QTrackItem has been constructed
    z,              \* z[k]: QTrackItem._z
    frames,         \* frames[k]: QTrackItem.frames, a list of frame records
    pos,            \* pos[k]: QGraphicsItem.pos() of the track, <<x, y>>
    bounds,         \* bounds[k]: QTrackItem._bounds, <<left, top, width, height>>
    dragging,       \* dragging[k]: QTrackItem._dragging
    selected,       \* selected[k]: QTrackItem._selected
    scale,          \* the TimelineCoordTransform shared by tracks and frames
    enterAccepted,  \* what the last dragEnterEvent answered (event.setAccepted)
    raised,         \* exception the last handler ended with, or "none"
    lastOp,         \* the last operation and its arguments
    playhead,       \* Scene.playhead_time: <<>> (null) or <<t>>
    selectedFrames  \* Scene.selected_frame_ids

vars == <<created, z, frames, pos, bounds, dragging, selected, scale,
          enterAccepted, raised, lastOp, playhead, selectedFrames>>

-----------------------------------------------------------------------------
(* Bounds of the model *)

MaxFrames == 2      \* frames per track (single-track specification)
MaxTime == 1        \* frame start times are 0..MaxTime
MaxDur == 1         \* frame durations are -1..MaxDur
MaxZ == 1           \* z values handed to the constructor and the setter: 0..MaxZ

TrackIds == {1, 2}
Uuids == {1, 2}
Times == 0..MaxTime
Durations == (0 - 1)..MaxDur
ZValues == 0..MaxZ

-----------------------------------------------------------------------------
(* Program constants *)

left_pad == 3600    \* QTrackItem._left_pad, timedelta(hours=1)
right_pad == 300    \* QTrackItem._right_pad, timedelta(minutes=5)
DEFAULT_TRACK_HEIGHT == 48
DEFAULT_FRAME_HEIGHT == 40

MIMETYPE_TIMELINE_COLORMAP == "colormap"
MIMETYPE_TIMELINE_TRACK == "track"
MimeKinds == {MIMETYPE_TIMELINE_COLORMAP, MIMETYPE_TIMELINE_TRACK, "other"}

QRectF0 == <<0, 0, 0, 0>>      \* QRectF(): the null rectangle
QPointF0 == <<0, 0>>           \* a fresh item's pos()
NoExtent == <<>>               \* (None, None)
NoOp == [op |-> "init", k |-> 0, fmts |-> {}, src |-> 0, flag |-> 0]

Min(a, b) == IF a <= b THEN a ELSE b
Max(a, b) == IF a >= b THEN a ELSE b

-----------------------------------------------------------------------------
(* TimelineCoordTransform *)

\* duration_to_length rejects a negative duration (InvalidArgument)
rejects_duration(d) == d < 0

\* calc_pixel_duration(d): d.total_seconds() * pixels_per_second
calc_pixel_duration(d) == d * scale.pps

\* time_to_coord(t): (t - origin_time) * pixels_per_second
time_to_coord(t) == (t - scale.origin) * scale.pps

\* calc_pixel_x_pos(t, d): (time_to_coord(t), duration_to_length(d))
calc_pixel_x_pos(t, d) == <<time_to_coord(t), calc_pixel_duration(d)>>

-----------------------------------------------------------------------------
(* QTrackItem.time_extent_of_frames *)

RECURSIVE extent_scan(_, _, _, _)
extent_scan(fs, i, s, e) ==
    IF i > Len(fs) THEN <<s, e>>
    ELSE LET t == fs[i].t
             d == fs[i].d
             s2 == IF s = <<>> THEN <<t>> ELSE <<Min(t, s[1])>>
             e2 == IF e = <<>> THEN <<t + d>> ELSE <<Max(e[1], t + d)>>
         IN  extent_scan(fs, i + 1, s2, e2)

\* a faulty variant: the start of the last frame scanned instead of the least start
time_extent_last_start(fs) ==
    IF fs = <<>> THEN NoExtent
    ELSE LET r == extent_scan(fs, 1, <<>>, <<>>)
         IN  <<fs[Len(fs)].t, r[2][1] - fs[Len(fs)].t>>

time_extent_of_frames(fs) ==
    LET r == extent_scan(fs, 1, <<>>, <<>>)
    IN  IF r[2] = <<>> THEN NoExtent ELSE <<r[1][1], r[2][1] - r[1][1]>>

-----------------------------------------------------------------------------
(* QTrackItem.update_pos_bounds: the position, bounds and outcome it leaves,
   given the frames, the z, and the position and bounds before the call *)

\* a faulty variant: the anchor moved by the new x instead of set to it
update_pos_bounds_drift(fs, zk, p, b) ==
    LET ext == time_extent_of_frames(fs)
    IN  IF ext = NoExtent THEN [pos |-> p, bounds |-> b, raised |-> "none"]
        ELSE IF rejects_duration(ext[2])
        THEN [pos |-> p, bounds |-> b, raised |-> "InvalidArgument"]
        ELSE LET top == zk * DEFAULT_TRACK_HEIGHT
                 fr == calc_pixel_x_pos(ext[1], ext[2])
                 tr == calc_pixel_x_pos(ext[1] - left_pad,
                                        ext[2] + left_pad + right_pad)
             IN  [pos |-> <<p[1] + fr[1] + 1, top + DEFAULT_TRACK_HEIGHT \div 2>>,
                  bounds |-> <<tr[1] - fr[1], 0 - (DEFAULT_TRACK_HEIGHT \div 2),
                               tr[2], DEFAULT_TRACK_HEIGHT>>,
                  raised |-> "none"]

update_pos_bounds(fs, zk, p, b) ==
    LET ext == time_extent_of_frames(fs)
    IN  IF ext = NoExtent THEN [pos |-> p, bounds |-> b, raised |-> "none"]
        ELSE IF rejects_duration(ext[2])
        THEN [pos |-> p, bounds |-> b, raised |-> "InvalidArgument"]
        ELSE LET top == zk * DEFAULT_TRACK_HEIGHT
                 fr == calc_pixel_x_pos(ext[1], ext[2])
                 tr == calc_pixel_x_pos(ext[1] - left_pad,
                                        ext[2] + left_pad + right_pad)
             IN  [pos |-> <<fr[1], top + DEFAULT_TRACK_HEIGHT \div 2>>,
                  bounds |-> <<tr[1] - fr[1], 0 - (DEFAULT_TRACK_HEIGHT \div 2),
                               tr[2], DEFAULT_TRACK_HEIGHT>>,
                  raised |-> "none"]

\* QTrackItem.update_frame_positions(*frames): the frames given (idxs, their
\* places in the list), or every frame of the track when none is given, placed
\* relative to the anchor's x
update_frame_positions(fs, myx, idxs) ==
    [i \in 1..Len(fs) |->
        IF idxs = {} \/ i \in idxs
        THEN [fs[i] EXCEPT !.fpos = <<time_to_coord(fs[i].t) - myx, 0>>]
        ELSE fs[i]]

\* QFrameItem.update_bounds: the frame's rectangle for its duration
frame_bounds(d) ==
    <<0, 0 - (DEFAULT_FRAME_HEIGHT \div 2), calc_pixel_duration(d), DEFAULT_FRAME_HEIGHT>>

\* the frame object as QFrameItem.__init__ has it when it appends itself
new_frame(u, t, d) ==
    [uuid |-> u, t |-> t, d |-> d, fpos |-> QPointF0, fbounds |-> QRectF0]

-----------------------------------------------------------------------------
(* Operations *)

InitScale(s) ==
    /\ created = {}
    /\ z = [k \in TrackIds |-> 0]
    /\ frames = [k \in TrackIds |-> <<>>]
    /\ pos = [k \in TrackIds |-> QPointF0]
    /\ bounds = [k \in TrackIds |-> QRectF0]
    /\ dragging = [k \in TrackIds |-> FALSE]
    /\ selected = [k \in TrackIds |-> FALSE]
    /\ scale = s
    /\ enterAccepted = FALSE
    /\ raised = "none"
    /\ lastOp = NoOp
    /\ playhead = <<>>
    /\ selectedFrames = {}

\* QTrackItem.__init__: the z is stored as given; update_pos_bounds returns
\* at once, the track having no frames
CreateTrack(k, zz, sel) ==
    /\ k \notin created
    /\ created' = created \cup {k}
    /\ z' = [z EXCEPT ![k] = zz]
    /\ frames' = [frames EXCEPT ![k] = <<>>]
    /\ LET r == update_pos_bounds(<<>>, zz, pos[k], bounds[k])
       IN  /\ pos' = [pos EXCEPT ![k] = r.pos]
           /\ bounds' = [bounds EXCEPT ![k] = r.bounds]
    /\ selected' = [selected EXCEPT ![k] = sel]
    /\ raised' = "none"
    /\ lastOp' = [op |-> "create", k |-> k, fmts |-> {}, src |-> 0, flag |-> 0]
    /\ UNCHANGED <<dragging, scale, enterAccepted, playhead, selectedFrames>>

\* the z setter: stores the new z and nothing else
SetZ(k, zz) ==
    /\ k \in created
    /\ z' = [z EXCEPT ![k] = zz]
    /\ raised' = "none"
    /\ lastOp' = [op |-> "set_z", k |-> k, fmts |-> {}, src |-> 0, flag |-> 0]
    /\ UNCHANGED <<created, frames, pos, bounds, dragging, selected, scale,
                   enterAccepted, playhead, selectedFrames>>

\* QFrameItem.__init__: append to track.frames, update_bounds (which converts
\* the duration and so rejects a negative one), then the track's
\* update_pos_bounds and update_frame_positions
AddFrame(k, u, t, d) ==
    /\ k \in created
    /\ lastOp' = [op |-> "add_frame", k |-> k, fmts |-> {}, src |-> 0, flag |-> 0]
    /\ LET appended == Append(frames[k], new_frame(u, t, d))
       IN  IF rejects_duration(d)
           THEN /\ frames' = [frames EXCEPT ![k] = appended]
                /\ raised' = "InvalidArgument"
                /\ UNCHANGED <<pos, bounds>>
           ELSE LET sized == [appended EXCEPT ![Len(appended)].fbounds = frame_bounds(d)]
                    r == update_pos_bounds(sized, z[k], pos[k], bounds[k])
                IN  /\ pos' = [pos EXCEPT ![k] = r.pos]
                    /\ bounds' = [bounds EXCEPT ![k] = r.bounds]
                    /\ raised' = r.raised
                    /\ frames' = [frames EXCEPT ![k] =
                                     IF r.raised = "none"
                                     THEN update_frame_positions(sized, r.pos[1], {})
                                     ELSE sized]
    /\ UNCHANGED <<created, z, dragging, selected, scale, enterAccepted,
                   playhead, selectedFrames>>

\* a call of QTrackItem.update_pos_bounds from outside (recompute_bounds);
\* lastOp.flag records that the call before it was the same call
UpdatePosBounds(k) ==
    /\ k \in created
    /\ LET r == update_pos_bounds(frames[k], z[k], pos[k], bounds[k])
       IN  /\ pos' = [pos EXCEPT ![k] = r.pos]
           /\ bounds' = [bounds EXCEPT ![k] = r.bounds]
           /\ raised' = r.raised
    /\ lastOp' = [op |-> "update_pos_bounds", k |-> k, fmts |-> {}, src |-> 0,
                  flag |-> IF lastOp.op = "update_pos_bounds" /\ lastOp.k = k
                          THEN 1 ELSE 0]
    /\ UNCHANGED <<created, z, frames, dragging, selected, scale, enterAccepted,
                   playhead, selectedFrames>>

\* a call of QTrackItem.update_frame_positions from outside, with some of the
\* track's frames or with none (then all are placed)
UpdateFramePositions(k, idxs) ==
    /\ k \in created
    /\ idxs \subseteq 1..Len(frames[k])
    /\ frames' = [frames EXCEPT ![k] = update_frame_positions(frames[k], pos[k][1], idxs)]
    /\ raised' = "none"
    /\ lastOp' = [op |-> "update_frame_positions", k |-> k, fmts |-> {}, src |-> 0, flag |-> 0]
    /\ UNCHANGED <<created, z, pos, bounds, dragging, selected, scale,
                   enterAccepted, playhead, selectedFrames>>

-----------------------------------------------------------------------------
(* Drag and drop arrivals *)

\* a faulty variant: only the colormap kind is accepted
accepts_only_colormap(fmts) == MIMETYPE_TIMELINE_COLORMAP \in fmts

\* the test of dragEnterEvent: hasFormat(colormap), else hasFormat(track)
accepts_mime(fmts) ==
    IF MIMETYPE_TIMELINE_COLORMAP \in fmts THEN TRUE
    ELSE IF MIMETYPE_TIMELINE_TRACK \in fmts THEN TRUE
    ELSE FALSE

\* recv_mime(event, mimetype): the payload when the event carries the format,
\* None otherwise
recv_mime(fmts, mimetype) == mimetype \in fmts

\* dragEnterEvent: sets _dragging, then answers by the payload's formats
DragEnter(k, fmts) ==
    /\ k \in created
    /\ dragging' = [dragging EXCEPT ![k] = TRUE]
    /\ enterAccepted' = accepts_mime(fmts)
    /\ raised' = "none"
    /\ lastOp' = [op |-> "drag_enter", k |-> k, fmts |-> fmts, src |-> 0, flag |-> 0]
    /\ UNCHANGED <<created, z, frames, pos, bounds, selected, scale,
                   playhead, selectedFrames>>

\* dragLeaveEvent
DragLeave(k) ==
    /\ k \in created
    /\ dragging' = [dragging EXCEPT ![k] = FALSE]
    /\ raised' = "none"
    /\ lastOp' = [op |-> "drag_leave", k |-> k, fmts |-> {}, src |-> 0, flag |-> 0]
    /\ UNCHANGED <<created, z, frames, pos, bounds, selected, scale,
                   enterAccepted, playhead, selectedFrames>>

\* dropEvent of track k; src is the track a track-reorder payload carries.
\* set_colormap and insert_track_before only log a warning.  Past the
\* colormap branch the handler reaches event.mimeData().data() with no
\* format argument, which raises before event.setAccepted(False).
Drop(k, fmts, src) ==
    /\ k \in created
    /\ src \in created
    /\ raised' = IF recv_mime(fmts, MIMETYPE_TIMELINE_COLORMAP)
                 THEN "none"
                 ELSE "TypeError"
    /\ lastOp' = [op |-> "drop", k |-> k, fmts |-> fmts, src |-> src, flag |-> 0]
    /\ UNCHANGED <<created, z, frames, pos, bounds, dragging, selected, scale,
                   enterAccepted, playhead, selectedFrames>>

-----------------------------------------------------------------------------
(* Scene selection and the navigation engine (spec.md 4.3, 4.5) *)

\* select_tracks({k}, TOGGLE)
SelectTrack(k) ==
    /\ k \in created
    /\ selected' = [selected EXCEPT ![k] = ~selected[k]]
    /\ raised' = "none"
    /\ lastOp' = [op |-> "select_track", k |-> k, fmts |-> {}, src |-> 0, flag |-> 0]
    /\ UNCHANGED <<created, z, frames, pos, bounds, dragging, scale,
                   enterAccepted, playhead, selectedFrames>>

\* select_frames({u}, TOGGLE)
SelectFrame(u) ==
    /\ selectedFrames' = IF u \in selectedFrames
                         THEN selectedFrames \ {u}
                         ELSE selectedFrames \cup {u}
    /\ raised' = "none"
    /\ lastOp' = [op |-> "select_frame", k |-> 0, fmts |-> {}, src |-> 0, flag |-> 0]
    /\ UNCHANGED <<created, z, frames, pos, bounds, dragging, selected, scale,
                   enterAccepted, playhead>>

\* set_playhead(t)
SetPlayhead(t) ==
    /\ playhead' = <<t>>
    /\ raised' = "none"
    /\ lastOp' = [op |-> "set_playhead", k |-> 0, fmts |-> {}, src |-> 0, flag |-> 0]
    /\ UNCHANGED <<created, z, frames, pos, bounds, dragging, selected, scale,
                   enterAccepted, selectedFrames>>

\* jump, step 1: the candidate frames, as <<track, index>> pairs
candidate_frames ==
    LET all == {<<k, i>> \in created \X (1..2) : i <= Len(frames[k])}
    IN  IF (\E k \in created : selected[k]) \/ selectedFrames # {}
        THEN {c \in all : selected[c[1]] \/ frames[c[1]][c[2]].uuid \in selectedFrames}
        ELSE all

\* jump, step 2: the boundary times of the candidates, sorted ascending
RECURSIVE sorted_seq(_)
sorted_seq(S) ==
    IF S = {} THEN <<>>
    ELSE LET m == CHOOSE x \in S : \A y \in S : x <= y
         IN  <<m>> \o sorted_seq(S \ {m})

boundary_times ==
    sorted_seq({frames[c[1]][c[2]].t : c \in candidate_frames}
               \cup {frames[c[1]][c[2]].t + frames[c[1]][c[2]].d : c \in candidate_frames})

\* jump, step 3: scan the sorted boundaries for the nearest one past the
\* playhead p (<<>> is null, less than every time); <<>> when there is none
RECURSIVE scan_up(_, _, _)
scan_up(bs, i, p) ==
    IF i > Len(bs) THEN <<>>
    ELSE IF p = <<>> \/ bs[i] > p[1] THEN <<bs[i]>>
    ELSE scan_up(bs, i + 1, p)

RECURSIVE scan_down(_, _, _)
scan_down(bs, i, p) ==
    IF i < 1 THEN <<>>
    ELSE IF p # <<>> /\ bs[i] < p[1] THEN <<bs[i]>>
    ELSE scan_down(bs, i - 1, p)

\* a faulty variant: a boundary at the playhead itself counts as the nearest
jump_target_inclusive(bs, p, dir) ==
    IF dir = "NEXT"
    THEN LET hit == {i \in 1..Len(bs) : p = <<>> \/ bs[i] >= p[1]}
         IN  IF hit = {} THEN <<>> ELSE <<bs[CHOOSE i \in hit : \A j \in hit : i <= j]>>
    ELSE LET hit == {i \in 1..Len(bs) : p # <<>> /\ bs[i] <= p[1]}
         IN  IF hit = {} THEN <<>> ELSE <<bs[CHOOSE i \in hit : \A j \in hit : i >= j]>>

jump_target(bs, p, dir) ==
    IF dir = "NEXT" THEN scan_up(bs, 1, p) ELSE scan_down(bs, Len(bs), p)

\* jump(direction), step 4: the playhead moves to the boundary found, or stays;
\* lastOp.flag records whether it moved
Jump(dir) ==
    /\ LET target == jump_target(boundary_times, playhead, dir)
       IN  /\ playhead' = IF target = <<>> THEN playhead ELSE target
           /\ lastOp' = [op |-> "jump", k |-> 0, fmts |-> {dir}, src |-> 0,
                         flag |-> IF target = <<>> THEN 0 ELSE 1]
    /\ raised' = "none"
    /\ UNCHANGED <<created, z, frames, pos, bounds, dragging, selected, scale,
                   enterAccepted, selectedFrames>>

-----------------------------------------------------------------------------
(* Specifications *)

Scales == {[origin |-> 0, pps |-> 1], [origin |-> 1, pps |-> 2]}

\* one track, its frames, its z and its geometry
Track1 == 1

InitTrack == \E s \in Scales : InitScale(s)

NextTrack ==
    \/ \E zz \in ZValues : CreateTrack(Track1, zz, FALSE)
    \/ \E zz \in ZValues : SetZ(Track1, zz)
    \/ \E u \in Uuids, t \in Times, d \in Durations :
          Len(frames[Track1]) < MaxFrames /\ AddFrame(Track1, u, t, d)
    \/ UpdatePosBounds(Track1)
    \/ \E idxs \in {{}} \cup {{i} : i \in 1..Len(frames[Track1])} :
          UpdateFramePositions(Track1, idxs)

SpecTrack == InitTrack /\ [][NextTrack]_vars

\* the tracks of a scene, their z ranks and the drag-and-drop handlers
InitScene == InitScale([origin |-> 0, pps |-> 1])

NextScene ==
    \/ \E k \in TrackIds, zz \in ZValues : CreateTrack(k, zz, FALSE)
    \/ \E k \in TrackIds, zz \in ZValues : SetZ(k, zz)
    \/ \E k \in TrackIds, t \in Times :
          frames[k] = <<>> /\ AddFrame(k, 1, t, 1)
    \/ \E k \in TrackIds, fmts \in SUBSET MimeKinds : DragEnter(k, fmts)
    \/ \E k \in TrackIds : UpdatePosBounds(k)
    \/ \E k \in TrackIds, idxs \in SUBSET {1} : UpdateFramePositions(k, idxs)
    \/ \E k \in TrackIds : DragLeave(k)
    \/ \E k \in TrackIds, fmts \in SUBSET MimeKinds, src \in TrackIds :
          Drop(k, fmts, src)

Spec == InitScene /\ [][NextScene]_vars

\* tracks holding one frame each, the selection and the playhead
PlayheadTimes == (0 - 1)..(MaxTime + MaxDur + 1)

NextNav ==
    \/ \E k \in TrackIds, sel \in BOOLEAN : CreateTrack(k, k - 1, sel)
    \/ \E k \in TrackIds, u \in Uuids, t \in Times, d \in Durations :
          frames[k] = <<>> /\ AddFrame(k, u, t, d)
    \/ \E k \in TrackIds, idxs \in SUBSET {1} : UpdateFramePositions(k, idxs)
    \/ \E k \in TrackIds : SelectTrack(k)
    \/ \E u \in Uuids : SelectFrame(u)
    \/ \E t \in PlayheadTimes : SetPlayhead(t)
    \/ \E dir \in {"NEXT", "PREV"} : Jump(dir)

SpecNav == InitScene /\ [][NextNav]_vars

-----------------------------------------------------------------------------
(* Claims about the scene's tracks: z ranks and drag and drop (Spec) *)

\* C1 (as claimed): in every reachable state the z ranks of the N tracks are
\* exactly 0..N-1, no two tracks sharing a rank.
C1_ZRanksPermutation ==
    /\ {z[k] : k \in created} = 0..(Cardinality(created) - 1)
    /\ \A a, b \in created : a # b => z[a] # z[b]

\* C2 (as claimed, from a state whose ranks are a permutation): when a
\* track-reorder payload carrying S is dropped on T # S, afterwards S
\* immediately precedes T (z of S = z of T - 1) and the relative order of
\* all other tracks is unchanged.
C2_DropMovesBefore ==
    [][(/\ C1_ZRanksPermutation
        /\ lastOp'.op = "drop"
        /\ lastOp'.fmts = {MIMETYPE_TIMELINE_TRACK}
        /\ lastOp'.src # lastOp'.k)
       => (/\ z'[lastOp'.src] = z'[lastOp'.k] - 1
           /\ \A a, b \in created \ {lastOp'.src} :
                 (z[a] < z[b]) <=> (z'[a] < z'[b]))]_vars

\* the state of a track that a drag-enter query must leave alone
TrackState == <<created, z, frames, pos, bounds, selected, scale>>

\* C5 (as claimed): a drag-enter acceptance query changes no state of the
\* track, its drag-in-progress flag included, and answers true exactly for
\* the colormap and track-reorder kinds.
C5_EnterIsPure ==
    [][lastOp'.op = "drag_enter"
       => (/\ dragging' = dragging
           /\ UNCHANGED TrackState
           /\ enterAccepted' =
                 (lastOp'.fmts \cap {MIMETYPE_TIMELINE_COLORMAP,
                                     MIMETYPE_TIMELINE_TRACK} # {}))]_vars

\* C5 (amended): a drag-enter acceptance query changes nothing of the track
\* but its drag-in-progress flag, which it sets (so asking again changes
\* nothing more), and answers true exactly for the colormap and
\* track-reorder kinds.
C5_EnterSetsOnlyDragging ==
    [][lastOp'.op = "drag_enter"
       => (/\ dragging' = [dragging EXCEPT ![lastOp'.k] = TRUE]
           /\ UNCHANGED TrackState
           /\ enterAccepted' =
                 (lastOp'.fmts \cap {MIMETYPE_TIMELINE_COLORMAP,
                                     MIMETYPE_TIMELINE_TRACK} # {}))]_vars

\* a track holding a frame was asked about a payload of another kind, was
\* asked before (its flag is set), and refused
C5_Witness ==
    /\ lastOp.op = "drag_enter"
    /\ lastOp.fmts = {"other"}
    /\ frames[lastOp.k] # <<>>
    /\ dragging[lastOp.k]
    /\ ~enterAccepted

\* C6 (as claimed): dropping a payload that is neither a colormap nor a
\* track-reorder payload completes without raising and changes nothing.
C6_UnknownDropIgnored ==
    [][(/\ lastOp'.op = "drop"
        /\ lastOp'.fmts = {"other"})
       => (/\ raised' = "none"
           /\ UNCHANGED TrackState
           /\ UNCHANGED <<dragging, selectedFrames, playhead>>)]_vars

-----------------------------------------------------------------------------
(* Claims about one track, its frames and its geometry (SpecTrack) *)

ValidFrames(fs) == \A i \in 1..Len(fs) : fs[i].d >= 0

SetMin(S) == CHOOSE x \in S : \A y \in S : x <= y
SetMax(S) == CHOOSE x \in S : \A y \in S : x >= y

\* (least start, greatest end - least start) over the frames, or (None, None)
ExtentOf(fs) ==
    IF fs = <<>> THEN NoExtent
    ELSE LET s == SetMin({fs[i].t : i \in 1..Len(fs)})
             e == SetMax({fs[i].t + fs[i].d : i \in 1..Len(fs)})
         IN  <<s, e - s>>

\* C3 (as claimed, for tracks whose frames all have a duration >= 0): the
\* anchor of a non-empty track is at x = time_to_coord(extent start),
\* y = z * TRACK_HEIGHT + TRACK_HEIGHT / 2 for the current z and extent.
C3_AnchorConsistent ==
    \A k \in created :
        (frames[k] # <<>> /\ ValidFrames(frames[k]))
        => pos[k] = <<time_to_coord(ExtentOf(frames[k])[1]),
                      z[k] * DEFAULT_TRACK_HEIGHT + DEFAULT_TRACK_HEIGHT \div 2>>

\* C4 (as claimed): a frame creation rejected as InvalidArgument leaves the
\* track's frames, time extent, anchor position and bounds as they were.
C4_RejectionChangesNothing ==
    [][(lastOp'.op = "add_frame" /\ raised' = "InvalidArgument")
       => (/\ frames' = frames
           /\ pos' = pos
           /\ bounds' = bounds
           /\ \A k \in created :
                 time_extent_of_frames(frames'[k]) = time_extent_of_frames(frames[k]))]_vars

\* C8: the time extent of a track is (least start, greatest end - least
\* start) over its frames, (None, None) for a track without frames, and
\* adding a frame never shrinks it: the start does not grow and the end
\* does not decrease.
C8_ExtentNeverShrinks ==
    /\ [](\A k \in created : time_extent_of_frames(frames[k]) = ExtentOf(frames[k]))
    /\ [][\A k \in created :
             Len(frames'[k]) = Len(frames[k]) + 1
             => LET a == time_extent_of_frames(frames[k])
                    b == time_extent_of_frames(frames'[k])
                IN  /\ b # NoExtent
                    /\ a # NoExtent => (b[1] <= a[1] /\ b[1] + b[2] >= a[1] + a[2])]_vars

\* a second frame was added and starts before the first one: the extent
\* reaches back to it and still covers the first one
C8_Witness ==
    \E k \in created :
        /\ Len(frames[k]) = 2
        /\ frames[k][2].t < frames[k][1].t
        /\ time_extent_of_frames(frames[k])[1] = frames[k][2].t
        /\ lastOp.op = "add_frame"

\* C9: update_pos_bounds called twice in a row on a track leaves, after the
\* second call, the anchor position and the bounds the first call left.
C9_RecomputeIdempotent ==
    [][(/\ lastOp.op = "update_pos_bounds"
        /\ lastOp'.op = "update_pos_bounds"
        /\ lastOp'.k = lastOp.k)
       => (pos' = pos /\ bounds' = bounds)]_vars

\* the second of two calls in a row has returned, on a track with frames
\* whose anchor the first call had to move (its z is not the 0 it was
\* created and populated with)
C9_Witness ==
    /\ lastOp.op = "update_pos_bounds"
    /\ lastOp.flag = 1
    /\ frames[lastOp.k] # <<>>
    /\ z[lastOp.k] > 0
    /\ pos[lastOp.k][2] = z[lastOp.k] * DEFAULT_TRACK_HEIGHT + DEFAULT_TRACK_HEIGHT \div 2

DistinctIds(fs) == \A i, j \in 1..Len(fs) : i # j => fs[i].uuid # fs[j].uuid

\* C10 (as claimed, for frames constructed with distinct ids and durations
\* >= 0): the frames of a track are in order of non-decreasing start.
C10_FramesSortedByStart ==
    \A k \in created :
        (ValidFrames(frames[k]) /\ DistinctIds(frames[k]))
        => \A i, j \in 1..Len(frames[k]) :
              i < j => frames[k][i].t <= frames[k][j].t

-----------------------------------------------------------------------------
(* Claims about navigation (SpecNav) *)

\* the frames jump considers: those of selected tracks or selected
\* themselves when anything is selected, all frames otherwise
AllFrames == UNION {{frames[k][i] : i \in 1..Len(frames[k])} : k \in created}
SelectedScope ==
    UNION {{frames[k][i] : i \in {j \in 1..Len(frames[k]) :
                                    selected[k] \/ frames[k][j].uuid \in selectedFrames}}
           : k \in created}
Candidates ==
    IF (\E k \in created : selected[k]) \/ selectedFrames # {}
    THEN SelectedScope ELSE AllFrames
Boundaries == {f.t : f \in Candidates} \cup {f.t + f.d : f \in Candidates}

\* C7: jump(NEXT) sets the playhead to the least boundary of the candidate
\* frames strictly greater than it (a null playhead is below every time),
\* jump(PREV) to the greatest one strictly less; with no such boundary the
\* playhead is unchanged, and jump raises nothing.
C7_JumpNearestBoundary ==
    [][lastOp'.op = "jump"
       => LET later == {b \in Boundaries : playhead = <<>> \/ b > playhead[1]}
              earlier == {b \in Boundaries : playhead # <<>> /\ b < playhead[1]}
          IN  /\ raised' = "none"
              /\ lastOp'.fmts = {"NEXT"}
                 => playhead' = IF later = {} THEN playhead ELSE <<SetMin(later)>>
              /\ lastOp'.fmts = {"PREV"}
                 => playhead' = IF earlier = {} THEN playhead ELSE <<SetMax(earlier)>>]_vars

\* jump(NEXT) moved the playhead to a boundary of the selected track while
\* the other, unselected track has a boundary that only an unscoped jump
\* could have passed through
C7_Witness ==
    /\ lastOp.op = "jump"
    /\ lastOp.fmts = {"NEXT"}
    /\ lastOp.flag = 1
    /\ created = TrackIds
    /\ selected[1] /\ ~selected[2] /\ selectedFrames = {}
    /\ frames[1] # <<>> /\ frames[2] # <<>>
    /\ playhead = <<frames[1][1].t + frames[1][1].d>>
    /\ frames[1][1].d > 0
    /\ frames[2][1].t + frames[2][1].d < playhead[1]

====
